---- MODULE Spec2Model ----
(***************************************************************************)
(* TBDBpy (tbdb/__init__.py): the request builder _makeReq, the credential *)
(* collector _authenticate, the eight query functions and validPath.       *)
(*                                                                         *)
(* Python values are records [t |-> <type name>, v |-> <payload>].  A      *)
(* Python dict with string keys (the caller's parameter mapping, the      *)
(* envelope, a POST body) is a function whose DOMAIN is its key set.  A   *)
(* JSON document received from the server (a nested mapping) is the       *)
(* prefix-closed set of its key paths.                                     *)
(***************************************************************************)
EXTENDS Integers, Sequences, FiniteSets, TLC

VARIABLES
    queryParams,  \* the caller's parameter mapping object (a Python dict)
    op,           \* the public function being executed ("none" before the first call)
    auth,         \* the auth flag of the call
    pc,           \* position of the call: "idle", "_authenticate", "_makeReq", "post"
    authReqs,     \* _authenticate: the accumulated list
    another,      \* _authenticate: the last answer to the continue prompt
    posts,        \* the requests.post calls made by the current call, in order
    resp,         \* the last HTTP response received by the current call
    result,       \* how the current call ended: nothing yet, a return value, a raised error
    typed,        \* _authenticate: what was typed at the prompts, one entry per round
    authRet,      \* the value _authenticate returned to the query function
    targetPath,   \* validPath: its argument
    site,         \* validPath: which getPathTrees() call is running (line 657 or 669)
    stdout        \* lines printed by the current call

vars == <<queryParams, op, auth, pc, authReqs, another, posts, resp, result,
          typed, authRet, targetPath, site, stdout>>

\* ---------------------------------------------------------------- bounds
MaxRounds   == 3    \* prompt rounds of one _authenticate run
MaxPathLen  == 3    \* segments of a validPath argument

\* ---------------------------------------------------------- Python values
PyStr(s)   == [t |-> "str", v |-> <<s>>]
PyBool(b)  == [t |-> "bool", v |-> <<b>>]
PyNone     == [t |-> "NoneType", v |-> <<>>]
PyList(s)  == [t |-> "list", v |-> s]
PyDict(s)  == [t |-> "dict", v |-> s]
PyDoc(d)   == [t |-> "dict", v |-> <<d>>]
EmptyDict  == PyDict(<<>>)

\* d[k] = x on a Python dict
DictSet(d, k, x) == [j \in (DOMAIN d) \cup {k} |-> IF j = k THEN x ELSE d[j]]

\* ------------------------------------------------------- caller's inputs
OptionalKeys == {"corpora", "lang", "media", "age", "gender", "designType",
                 "activityType", "groupType", "cqlArr", "nGram"}
OtherKeys    == OptionalKeys \cup {"nsAuth", "respType"}

\* Two values a caller may store under each key.
CallerValue(k, i) ==
    CASE k = "corpusName"   -> PyStr("childes")
      [] k = "corpora"      -> PyList(<< <<"childes", "Eng-NA", "MacWhinney">> >>)
      [] k = "lang"         -> IF i = 1 THEN PyList(<<"eng", "spa">>) ELSE PyList(<<"spa", "eng">>)
      [] k = "media"        -> PyList(<<"video">>)
      [] k = "age"          -> PyList(<< [from |-> 14, to |-> 18] >>)
      [] k = "gender"       -> PyList(<<"female">>)
      [] k = "designType"   -> PyList(<<"long">>)
      [] k = "activityType" -> PyList(<<"toyplay">>)
      [] k = "groupType"    -> PyList(<<"HL">>)
      [] k = "cqlArr"       ->
            IF i = 1
            THEN PyList(<< [type |-> "lemma", item |-> "go", freq |-> "once"],
                           [type |-> "word", item |-> "home", freq |-> "once"] >>)
            ELSE PyList(<< [type |-> "word", item |-> "home", freq |-> "once"],
                           [type |-> "lemma", item |-> "go", freq |-> "once"] >>)
      [] k = "nGram"        ->
            IF i = 1 THEN PyDict(<< <<"size", "3">>, <<"type", "word">> >>)
                     ELSE PyDict(<< <<"size", "2">>, <<"type", "stem">> >>)
      [] k = "nsAuth"       ->
            PyList(<< [path |-> "childes", userID |-> "caller", pswd |-> "callerpw"] >>)
      [] k = "respType"     -> IF i = 1 THEN PyStr("JSON") ELSE PyStr("CSV")

\* The keys besides corpusName a caller's mapping holds: none, any one, or all.
SuppliedSets == {{}} \cup {{k} : k \in OtherKeys} \cup {OtherKeys}

Mappings ==
    {[k \in S \cup C |-> CallerValue(k, i)] :
        S \in SuppliedSets, C \in {{}, {"corpusName"}}, i \in 1..2}

\* What a user may type in one prompt round of _authenticate.
TypedPaths     == {"childes"}
TypedUserIDs   == {"u1"}
TypedPasswords == {"s1", "s2"}

\* CredentialRecord with the first two inputs stored under each other's key
CredentialRecord_Swapped(path, user_id, password) ==
    [path |-> user_id, userID |-> path, pswd |-> password]

\* _authenticate line 74: the dict appended for one round
CredentialRecord(path, user_id, password) ==
    [path |-> path, userID |-> user_id, pswd |-> password]

EnteredCreds ==
    {CredentialRecord(pa, u, pw) : pa \in TypedPaths, u \in TypedUserIDs, pw \in TypedPasswords}
Answers      == {"y", "Y", "n"}

\* str.lower() on the answers
lower(s) == IF s = "Y" THEN "y" ELSE IF s = "N" THEN "n" ELSE s

Segments == {"childes", "Clinical"}
Paths    == UNION {[1..n -> Segments] : n \in 0..MaxPathLen}

\* ------------------------------------------------------------ the server
BaseURL == "https://sla2.talkbank.org:1515/"

TableText == "{\"colHeadings\": [], \"data\": []}"
ErrorText == "{\"error\": \"x\"}"
TreeText  == "{\"respMsg\": {\"childes\": {\"childes\": {\"Clinical\": {}}}}}"
HtmlText  == "<html>502 Bad Gateway</html>"

Texts    == {TableText, ErrorText, TreeText, HtmlText}
Statuses == {200, 500}
Responses == [status : Statuses, text : Texts]
NoResp    == [status |-> 0, text |-> ""]

\* json.loads: the documents the texts above denote; any other text is not JSON.
IsJson(text) == text \in {TableText, ErrorText, TreeText}
json_loads(text) ==
    CASE text = TableText -> {<<>>, <<"colHeadings">>, <<"data">>}
      [] text = ErrorText -> {<<>>, <<"error">>}
      [] text = TreeText  -> {<<>>, <<"respMsg">>, <<"respMsg", "childes">>,
                              <<"respMsg", "childes", "childes">>,
                              <<"respMsg", "childes", "childes", "Clinical">>}

\* key in tree, tree[key] on a nested mapping
TreeKeys(tree)   == {p[1] : p \in {q \in tree : Len(q) > 0}}
SubTree(tree, k) == {Tail(p) : p \in {q \in tree : Len(q) > 0 /\ q[1] = k}}

\* ------------------------------------------------------------- results
NoResult   == [kind |-> "none", val |-> PyNone]
Return(x)  == [kind |-> "return", val |-> x]
Raise(e)   == [kind |-> "raise", val |-> PyStr(e)]

DataOps == {"getTranscripts", "getParticipants", "getUtterances", "getTokens",
            "getTokenTypes", "getCQL", "getNgrams"}

\* Route with getCQL posting to a route named after the function
Route_OwnName(f) ==
    CASE f = "getTranscripts"  -> "getTranscriptSummary"
      [] f = "getParticipants" -> "getParticipantSummary"
      [] f = "getUtterances"   -> "getUtteranceSummary"
      [] f = "getTokens"       -> "getTokenSummary"
      [] f = "getTokenTypes"   -> "getTokenTypes"
      [] f = "getCQL"          -> "getCQL"
      [] f = "getNgrams"       -> "getNgrams"
      [] f = "getPathTrees"    -> "getPathTrees"
      [] f = "validPath"       -> "getPathTrees"

\* the route each function passes to _makeReq
Route(f) ==
    CASE f = "getTranscripts"  -> "getTranscriptSummary"
      [] f = "getParticipants" -> "getParticipantSummary"
      [] f = "getUtterances"   -> "getUtteranceSummary"
      [] f = "getTokens"       -> "getTokenSummary"
      [] f = "getTokenTypes"   -> "getTokenTypes"
      [] f = "getCQL"          -> "cql"
      [] f = "getNgrams"       -> "getNgrams"
      [] f = "getPathTrees"    -> "getPathTrees"
      [] f = "validPath"       -> "getPathTrees"

\* DB_query with every function passing False
DB_query_False(f) == FALSE

\* the DB_query argument each function passes to _makeReq
DB_query(f) == f \in DataOps

RECURSIVE Reverse(_)
Reverse(s) == IF s = <<>> THEN <<>> ELSE Append(Reverse(Tail(s)), Head(s))

\* Default with None in place of the empty dict
Default_None(qp, k) == IF k \in DOMAIN qp THEN qp[k] ELSE PyNone

\* Default with a supplied container rebuilt in reverse order
Default_Reversed(qp, k) ==
    IF k \in DOMAIN qp THEN [t |-> qp[k].t, v |-> Reverse(qp[k].v)] ELSE PyDict(<<>>)

\* _makeReq lines 38-54: the envelope
Default(qp, k) == IF k \in DOMAIN qp THEN qp[k] ELSE EmptyDict

BaseQuery(qp) ==
    [k \in {"corpusName"} \cup OptionalKeys \cup {"respType"} |->
        IF k = "corpusName" THEN qp["corpusName"]
        ELSE IF k = "respType" THEN PyStr("JSON")
        ELSE Default(qp, k)]

\* Query with nsAuth defaulted like the other optional keys
Query_NsAuthDefaulted(qp) ==
    DictSet(BaseQuery(qp), "nsAuth",
            IF "nsAuth" \in DOMAIN qp THEN qp["nsAuth"] ELSE PyDict(<<>>))

Query(qp) ==
    IF "nsAuth" \in DOMAIN qp
    THEN DictSet(BaseQuery(qp), "nsAuth", qp["nsAuth"])
    ELSE BaseQuery(qp)

\* Body with the envelope sent whenever the mapping allows building it
Body_AlwaysEnvelope(f, qp) ==
    IF DB_query(f) \/ "corpusName" \in DOMAIN qp
    THEN [k \in {"queryVals"} |-> Query(qp)]
    ELSE [k \in {} |-> PyNone]

\* _makeReq lines 56-59: the json= argument of requests.post
Body(f, qp) ==
    IF DB_query(f) THEN [k \in {"queryVals"} |-> Query(qp)]
                   ELSE [k \in {} |-> PyNone]

\* validPath.checkPath, lines 657-667: the value returned and the lines printed
RECURSIVE checkPath(_, _)
checkPath(tp, pathTree) ==
    IF Len(tp) = 0
    THEN [ret |-> PyBool(TRUE), out |-> <<>>]
    ELSE IF tp[1] \in TreeKeys(pathTree)
         THEN LET inner == checkPath(Tail(tp), SubTree(pathTree, tp[1]))
              IN  [ret |-> PyNone, out |-> inner.out]
         ELSE [ret |-> PyBool(FALSE), out |-> <<"Invalid path at: ", tp[1]>>]

\* list.append with the new record put in front
append_Front(reqs, rec) == <<rec>> \o reqs

\* _authenticate line 74: authReqs.append(...)
append(reqs, rec) == Append(reqs, rec)

\* the assignment keeping an nsAuth the caller supplied
StoreAuth_KeepCaller(qp, ret) ==
    IF "nsAuth" \in DOMAIN qp THEN qp ELSE DictSet(qp, "nsAuth", ret)

\* the query functions' "queryParams['nsAuth'] = _authenticate()"
StoreAuth(qp, ret) == DictSet(qp, "nsAuth", ret)

\* ---------------------------------------------------------------- Init
Init ==
    /\ queryParams \in Mappings
    /\ op = "none"
    /\ auth = FALSE
    /\ pc = "idle"
    /\ authReqs = <<>>
    /\ another = "y"
    /\ posts = <<>>
    /\ resp = NoResp
    /\ result = NoResult
    /\ typed = <<>>
    /\ authRet = NoResult
    /\ targetPath = <<>>
    /\ site = 0
    /\ stdout = <<>>

\* --------------------------------------------------------------- actions
\* entry of a query function: "if auth: queryParams['nsAuth'] = _authenticate()"
Enter(f, a) ==
    /\ pc = "idle"
    /\ op' = f
    /\ auth' = a
    /\ pc' = IF a THEN "_authenticate" ELSE "_makeReq"
    /\ authReqs' = <<>>
    /\ another' = "y"
    /\ posts' = <<>>
    /\ resp' = NoResp
    /\ result' = NoResult
    /\ typed' = <<>>
    /\ authRet' = NoResult
    /\ targetPath' = <<>>
    /\ site' = 0
    /\ stdout' = <<>>
    /\ UNCHANGED queryParams

getTranscripts  == \E a \in BOOLEAN : Enter("getTranscripts", a)
getParticipants == \E a \in BOOLEAN : Enter("getParticipants", a)
getUtterances   == \E a \in BOOLEAN : Enter("getUtterances", a)
getTokens       == \E a \in BOOLEAN : Enter("getTokens", a)
getTokenTypes   == \E a \in BOOLEAN : Enter("getTokenTypes", a)
getCQL          == \E a \in BOOLEAN : Enter("getCQL", a)
getNgrams       == \E a \in BOOLEAN : Enter("getNgrams", a)
getPathTrees    == Enter("getPathTrees", FALSE)

\* validPath: the def of checkPath evaluates its default argument getPathTrees()
validPath ==
    /\ pc = "idle"
    /\ \E p \in Paths : targetPath' = p
    /\ op' = "validPath"
    /\ auth' = FALSE
    /\ pc' = "_makeReq"
    /\ site' = 657
    /\ authReqs' = <<>>
    /\ another' = "y"
    /\ posts' = <<>>
    /\ resp' = NoResp
    /\ result' = NoResult
    /\ typed' = <<>>
    /\ authRet' = NoResult
    /\ stdout' = <<>>
    /\ UNCHANGED queryParams

\* one iteration of the while loop of _authenticate; when the function
\* returns, the query function stores the returned value under 'nsAuth'
_authenticate ==
    /\ pc = "_authenticate"
    /\ \E path \in TypedPaths, user_id \in TypedUserIDs, password \in TypedPasswords,
          ans \in Answers :
        /\ (Len(authReqs) + 1 < MaxRounds \/ ans # "y")
        /\ typed' = Append(typed, [path |-> path, user_id |-> user_id,
                                   password |-> password, another |-> ans])
        /\ authReqs' = append(authReqs, CredentialRecord(path, user_id, password))
        /\ another' = ans
        /\ IF lower(ans) # "y"
           THEN \* return authReqs
                /\ authRet' = Return(PyList(authReqs'))
                /\ queryParams' = StoreAuth(queryParams, PyList(authReqs'))
                /\ pc' = "_makeReq"
           ELSE IF ans = "y"
           THEN \* the loop runs again
                /\ pc' = "_authenticate"
                /\ UNCHANGED <<queryParams, authRet>>
           ELSE \* the loop condition fails and the function falls off its end
                /\ authRet' = Return(PyNone)
                /\ queryParams' = StoreAuth(queryParams, PyNone)
                /\ pc' = "_makeReq"
    /\ UNCHANGED <<op, auth, posts, resp, result, targetPath, site, stdout>>

\* _makeReq up to and including the call of requests.post
_makeReq ==
    /\ pc = "_makeReq"
    /\ IF DB_query(op) /\ "corpusName" \notin DOMAIN queryParams
       THEN /\ result' = Raise("KeyError")
            /\ pc' = "idle"
            /\ UNCHANGED posts
       ELSE /\ posts' = Append(posts, [url  |-> [base |-> BaseURL, route |-> Route(op)],
                                       json |-> Body(op, queryParams)])
            /\ pc' = "post"
            /\ UNCHANGED result
    /\ UNCHANGED <<queryParams, op, auth, authReqs, another, resp, typed, authRet,
                   targetPath, site, stdout>>

\* requests.post raises: no response
ConnectionError ==
    /\ pc = "post"
    /\ result' = Raise("ConnectionError")
    /\ pc' = "idle"
    /\ UNCHANGED <<queryParams, op, auth, authReqs, another, posts, resp, typed,
                   authRet, targetPath, site, stdout>>

\* requests.post returns a response; "return json.loads(resp.text)" and, in
\* validPath, what follows the return of getPathTrees()
Response ==
    /\ pc = "post"
    /\ \E r \in Responses :
        /\ resp' = r
        /\ IF ~IsJson(r.text)
           THEN /\ result' = Raise("JSONDecodeError")
                /\ pc' = "idle"
                /\ UNCHANGED <<site, stdout>>
           ELSE IF op = "validPath" /\ site = 657
           THEN \* the default argument is bound; line 669 calls getPathTrees() again
                /\ pc' = "_makeReq"
                /\ site' = 669
                /\ UNCHANGED <<result, stdout>>
           ELSE IF op = "validPath"
           THEN LET c == checkPath(<<"respMsg">> \o targetPath, json_loads(r.text))
                IN  /\ result' = Return(c.ret)
                    /\ stdout' = c.out
                    /\ pc' = "idle"
                    /\ UNCHANGED site
           ELSE /\ result' = Return(PyDoc(json_loads(r.text)))
                /\ pc' = "idle"
                /\ UNCHANGED <<site, stdout>>
    /\ UNCHANGED <<queryParams, op, auth, authReqs, another, posts, typed, authRet,
                   targetPath>>

Next ==
    \/ getTranscripts
    \/ getParticipants
    \/ getUtterances
    \/ getTokens
    \/ getTokenTypes
    \/ getCQL
    \/ getNgrams
    \/ getPathTrees
    \/ validPath
    \/ _authenticate
    \/ _makeReq
    \/ ConnectionError
    \/ Response

Spec == Init /\ [][Next]_vars

TypeOK ==
    /\ pc \in {"idle", "_authenticate", "_makeReq", "post"}
    /\ op \in DataOps \cup {"getPathTrees", "validPath", "none"}
    /\ auth \in BOOLEAN
    /\ Len(authReqs) <= MaxRounds
    /\ Len(posts) <= 2

\* ------------------------------------------------------------ properties
\* the envelope sent under 'queryVals' by the i-th POST of the current call
Envelope(i) == posts[i].json["queryVals"]

Returned == pc = "idle" /\ result.kind = "return"
Raised   == pc = "idle" /\ result.kind = "raise"

\* the chain c can be walked by successive key lookup starting at tree
Walkable(c, tree) == \A i \in 1..Len(c) : SubSeq(c, 1, i) \in tree

\* the tree validPath handed to checkPath: the document fetched at line 669
FetchedTree == json_loads(resp.text)

\* C1: whenever validPath has returned and the chain 'respMsg', p[0], ...,
\* p[n-1] can be walked by key lookup in the fetched tree, the value returned
\* is the boolean True.
C1_WalkableReturnsTrue ==
    (op = "validPath" /\ Returned
        /\ Walkable(<<"respMsg">> \o targetPath, FetchedTree))
    => (result.val.t = "bool" /\ result.val = PyBool(TRUE))

\* C2: whenever validPath has returned and some segment of the chain
\* 'respMsg', p[0], ..., p[n-1] is not a key of the subtree reached before it,
\* the value returned is the boolean False.
C2_BrokenReturnsFalse ==
    (op = "validPath" /\ Returned
        /\ ~Walkable(<<"respMsg">> \o targetPath, FetchedTree))
    => (result.val.t = "bool" /\ result.val = PyBool(FALSE))

\* C3: in every envelope posted by a data request, each optional key the
\* mapping omits is present and maps to an empty container, and respType is
\* the string "JSON" whatever the mapping holds under respType.
C3_DefaultsAndRespType ==
    \A i \in 1..Len(posts) :
        op \in DataOps =>
            /\ \A k \in OptionalKeys \ DOMAIN queryParams :
                  /\ k \in DOMAIN Envelope(i)
                  /\ Envelope(i)[k].t \in {"dict", "list"}
                  /\ Envelope(i)[k].v = <<>>
            /\ "respType" \in DOMAIN Envelope(i)
            /\ Envelope(i)["respType"] = PyStr("JSON")

\* a data request was posted for a mapping that omits cqlArr and asks for CSV
C3_Witness ==
    /\ op \in DataOps /\ Len(posts) = 1
    /\ "cqlArr" \notin DOMAIN queryParams
    /\ "respType" \in DOMAIN queryParams
    /\ queryParams["respType"] = PyStr("CSV")

\* the key set of the envelope built from a mapping that supplies every key
UniformKeys ==
    DOMAIN Query([k \in {"corpusName"} \cup OtherKeys |-> CallerValue(k, 1)])

\* C4 (as stated): every envelope posted by a data request has the same key
\* set, the one of a request that supplies every key, nsAuth included.
C4_UniformShape ==
    \A i \in 1..Len(posts) :
        op \in DataOps => DOMAIN Envelope(i) = UniformKeys

\* C4 (amended): every envelope posted by a data request has the keys
\* corpusName, the ten optional keys and respType; it has the key nsAuth
\* exactly when the mapping holds nsAuth at the time the envelope is built,
\* which is always the case when the auth flag was set.
C4_UniformExceptNsAuth ==
    \A i \in 1..Len(posts) :
        op \in DataOps =>
            /\ DOMAIN Envelope(i) \ {"nsAuth"} = UniformKeys \ {"nsAuth"}
            /\ ("nsAuth" \in DOMAIN Envelope(i)) <=> ("nsAuth" \in DOMAIN queryParams)
            /\ auth => "nsAuth" \in DOMAIN Envelope(i)

\* a data request was posted without nsAuth for a mapping supplying a key
C4_Witness ==
    /\ op \in DataOps /\ Len(posts) = 1 /\ ~auth
    /\ "nsAuth" \notin DOMAIN Envelope(1)
    /\ "lang" \in DOMAIN queryParams

\* C5: in every envelope posted by a data request, corpusName and every
\* optional value the caller supplied appear under the same key with an equal
\* value (same elements, same order); this covers a supplied nsAuth when the
\* auth flag is not set (with the flag set the collector's list replaces it).
C5_PassThrough ==
    \A i \in 1..Len(posts) :
        op \in DataOps =>
            \A k \in DOMAIN queryParams \ ({"respType"} \cup (IF auth THEN {"nsAuth"} ELSE {})) :
                /\ k \in DOMAIN Envelope(i)
                /\ Envelope(i)[k] = queryParams[k]

\* a data request was posted for a mapping that supplies the two-component
\* cqlArr of the documentation
C5_Witness ==
    /\ op \in DataOps /\ Len(posts) = 1
    /\ "cqlArr" \in DOMAIN queryParams
    /\ queryParams["cqlArr"] = CallerValue("cqlArr", 1)
    /\ Len(Envelope(1)["cqlArr"].v) = 2

\* C6: every POST of a metadata request (getPathTrees, and the tree fetches
\* of validPath) has the empty object as its body.
C6_MetadataBodyEmpty ==
    \A i \in 1..Len(posts) :
        (op \in {"getPathTrees", "validPath"}) => DOMAIN posts[i].json = {}

\* getPathTrees has posted while the caller's mapping holds a corpusName
C6_Witness ==
    /\ op = "getPathTrees" /\ Len(posts) = 1
    /\ "corpusName" \in DOMAIN queryParams

\* C7: a data query whose POST was answered with a non-2xx status or with a
\* body that is not JSON ends by raising an error and returns nothing.
C7_FailureRaises ==
    (op \in DataOps /\ pc = "idle" /\ resp # NoResp
        /\ (resp.status \notin 200..299 \/ ~IsJson(resp.text)))
    => result.kind = "raise"

\* C8: a data query whose mapping lacks corpusName performs no POST and ends
\* by raising the key-lookup failure.
C8_MissingCorpusName ==
    (op \in DataOps /\ "corpusName" \notin DOMAIN queryParams)
    => /\ posts = <<>>
       /\ pc = "idle" => result = Raise("KeyError")

\* a data query on a mapping without corpusName has ended, after the
\* credential collector ran
C8_Witness ==
    /\ op \in DataOps /\ pc = "idle" /\ auth
    /\ "corpusName" \notin DOMAIN queryParams
    /\ result = Raise("KeyError")

\* the route the documentation of each operation names
OwnRoute(f) ==
    CASE f = "getTranscripts"  -> "getTranscriptSummary"
      [] f = "getParticipants" -> "getParticipantSummary"
      [] f = "getUtterances"   -> "getUtteranceSummary"
      [] f = "getTokens"       -> "getTokenSummary"
      [] f = "getTokenTypes"   -> "getTokenTypes"
      [] f = "getCQL"          -> "cql"
      [] f = "getNgrams"       -> "getNgrams"
      [] f = "getPathTrees"    -> "getPathTrees"

QueryFunctions == DataOps \cup {"getPathTrees"}

ToOwnRoute(i) == posts[i].url = [base |-> BaseURL, route |-> OwnRoute(op)]

\* C9 (as stated): every finished invocation of one of the eight query
\* functions has performed exactly one POST, addressed to its own route.
C9_ExactlyOnePost ==
    (op \in QueryFunctions /\ pc = "idle")
    => (Len(posts) = 1 /\ ToOwnRoute(1))

\* C9 (amended): an invocation of one of the eight query functions never
\* performs more than one POST, every POST goes to the operation's own route
\* on the fixed base endpoint, and a finished invocation has performed
\* exactly one POST when it is getPathTrees or its mapping contains
\* corpusName, and none when the mapping lacks corpusName.
C9_OnePostUnlessMissingCorpusName ==
    op \in QueryFunctions =>
        /\ Len(posts) <= 1
        /\ \A i \in 1..Len(posts) : ToOwnRoute(i)
        /\ pc = "idle" =>
              Len(posts) = IF op = "getPathTrees" \/ "corpusName" \in DOMAIN queryParams
                           THEN 1 ELSE 0

\* getCQL has ended in a failed request after its one POST
C9_Witness ==
    /\ op = "getCQL" /\ Raised /\ Len(posts) = 1
    /\ result = Raise("ConnectionError")

\* the credential records carried by an nsAuth value
Credentials(x) == {x.v[j] : j \in 1..Len(x.v)}

\* C10: a data query made with the auth flag not set posts an envelope that
\* carries no credential entered at the prompt of an earlier call on the same
\* mapping object.
C10_CredentialsTransient ==
    \A i \in 1..Len(posts) :
        (op \in DataOps /\ ~auth /\ "nsAuth" \in DOMAIN Envelope(i))
        => Credentials(Envelope(i)["nsAuth"]) \cap EnteredCreds = {}

\* ------------------------------------------------ the credential collector
CollectorStopped == authRet.kind = "return"
Affirmative(a)   == a \in {"y", "Y"}
AnswersTyped     == [i \in 1..Len(typed) |-> typed[i].another]

\* C11: every answer followed by another prompt round was 'y' or 'Y', the
\* collector has not stopped while the last answer is 'y' or 'Y', and when it
\* has stopped the value it returned is the list of all records entered.
C11_CollectorLoop ==
    /\ \A i \in 1..(Len(typed) - 1) : Affirmative(typed[i].another)
    /\ (typed # <<>> /\ Affirmative(typed[Len(typed)].another)) => ~CollectorStopped
    /\ CollectorStopped =>
          /\ authRet.val.t = "list"
          /\ authRet.val = PyList(authReqs)
          /\ Len(authReqs) = Len(typed)

\* C12 (as stated): when the collector has stopped after the answers 'y',
\* 'y', 'n', the value it returned is a list of exactly two records.
C12_TwoRecords ==
    (CollectorStopped /\ AnswersTyped = <<"y", "y", "n">>)
    => (authRet.val.t = "list" /\ Len(authRet.val.v) = 2)

\* C12 (amended): when the collector has stopped after the answers 'y', 'y',
\* 'n', the value it returned is a list of exactly three records, the i-th
\* holding what was typed in the i-th prompt round.
C12_ThreeRecordsInOrder ==
    (CollectorStopped /\ AnswersTyped = <<"y", "y", "n">>)
    => /\ authRet.val.t = "list"
       /\ Len(authRet.val.v) = 3
       /\ \A i \in 1..3 :
             /\ authRet.val.v[i]["path"] = typed[i].path
             /\ authRet.val.v[i]["userID"] = typed[i].user_id
             /\ authRet.val.v[i]["pswd"] = typed[i].password

\* the collector has stopped after 'y', 'y', 'n' with different secrets typed
\* in the first and the last round
C12_Witness ==
    /\ CollectorStopped /\ AnswersTyped = <<"y", "y", "n">>
    /\ typed[1].password # typed[3].password

\* C13: a data query with the auth flag set posts only after the collector
\* has prompted and returned, no POST exists while the collector is running,
\* and the posted envelope's nsAuth is the value the collector returned; with
\* the auth flag not set the collector is never entered and nothing is typed.
C13_CollectorBeforeEnvelope ==
    /\ (op \in DataOps /\ auth /\ posts # <<>>) =>
          /\ CollectorStopped /\ typed # <<>>
          /\ \A i \in 1..Len(posts) :
                /\ "nsAuth" \in DOMAIN Envelope(i)
                /\ Envelope(i)["nsAuth"] = authRet.val
    /\ pc = "_authenticate" => (auth /\ posts = <<>> /\ ~CollectorStopped)
    /\ ~auth => (typed = <<>> /\ authRet = NoResult /\ pc # "_authenticate")

\* a data query with the auth flag set has posted the two records collected
C13_Witness ==
    /\ op \in DataOps /\ auth /\ Len(posts) = 1
    /\ Len(authReqs) = 2
    /\ Envelope(1)["nsAuth"] = PyList(authReqs)

\* C14: a validPath call never performs more than one POST, and a call that
\* has returned has performed exactly one, to getPathTrees.
C14_OneFetchPerCall ==
    op = "validPath" =>
        /\ Len(posts) <= 1
        /\ Returned => Len(posts) = 1
        /\ \A i \in 1..Len(posts) :
              posts[i].url = [base |-> BaseURL, route |-> "getPathTrees"]

\* C15: for every envelope posted by a data request, building the envelope
\* from that envelope yields the same envelope, and building it again from
\* the mapping yields the envelope that was posted.
C15_Idempotent ==
    \A i \in 1..Len(posts) :
        op \in DataOps =>
            /\ Query(Envelope(i)) = Envelope(i)
            /\ Query(queryParams) = Envelope(i)

\* a data request was posted for a mapping that supplies every key and asks
\* for CSV
C15_Witness ==
    /\ op \in DataOps /\ Len(posts) = 1 /\ ~auth
    /\ DOMAIN queryParams = {"corpusName"} \cup OtherKeys
    /\ queryParams["respType"] = PyStr("CSV")

\* C16 (as stated): every record the collector has appended has exactly the
\* fields path, userID and password, holding what was typed in its round.
C16_RecordFields ==
    /\ Len(authReqs) = Len(typed)
    /\ \A i \in 1..Len(authReqs) :
          /\ DOMAIN authReqs[i] = {"path", "userID", "password"}
          /\ authReqs[i]["path"] = typed[i].path
          /\ authReqs[i]["userID"] = typed[i].user_id
          /\ authReqs[i]["password"] = typed[i].password

\* C16 (amended): every record the collector has appended has exactly the
\* fields path, userID and pswd, holding the path, the user identifier and
\* the secret typed in its round.
C16_RecordFieldsPswd ==
    /\ Len(authReqs) = Len(typed)
    /\ \A i \in 1..Len(authReqs) :
          /\ DOMAIN authReqs[i] = {"path", "userID", "pswd"}
          /\ authReqs[i]["path"] = typed[i].path
          /\ authReqs[i]["userID"] = typed[i].user_id
          /\ authReqs[i]["pswd"] = typed[i].password

\* the collector is running and has appended two records with different secrets
C16_Witness ==
    /\ pc = "_authenticate" /\ Len(authReqs) = 2
    /\ authReqs[1]["pswd"] # authReqs[2]["pswd"]
====
